---- MODULE Spec2Model ----
(***************************************************************************)
(* SshWrapper: the Connection retry loop, the interactive Channel, the Ssh *)
(* facade with its service-wait loop, and the Sftp facade with its upload  *)
(* and its downloads.                                                      *)
(*                                                                         *)
(* The library session (paramiko's SSHClient, Channel, SFTPClient) and the *)
(* remote host are the environment: every call into them is appended to    *)
(* `trace`, and what they answer is drawn with \E from the answers the     *)
(* library can give.  Time is counted in ticks of half a second, the       *)
(* smallest sleep of the code (channel.py line 82).                        *)
(*                                                                         *)
(* The program is single-threaded: `pc` is the position of the one caller, *)
(* "idle" between two calls of the public operations, and inside one of    *)
(* the three loops (create, open, wait) otherwise.                         *)
(***************************************************************************)
EXTENDS Integers, Sequences, FiniteSets, TLC

VARIABLES
    hasWinerror,        \* platform: OSError carries the attribute winerror (Windows only)
    connection_timeout, \* ServerData.connection_timeout, in seconds
    connected,          \* Connection.__connected
    ssh_channel,        \* Channel.ssh_channel: "None", or the state of the handle it holds
    client,             \* Sftp.client: "None", or the state of the handle it holds
    lifecycle,          \* history: how the last create() or delete() left the Connection
    opening,            \* history: how the calls of Channel.open() have ended so far
    scope,              \* which `with` blocks the caller is inside of
    pc,                 \* "idle", "create", "open", "wait"
    call,               \* the public operation running (or the last one that ran)
    wait,               \* arguments and loop bookkeeping of wait_execute_service
    elapsed,            \* time.time() - start_time of the running loop, in ticks
    trace,              \* calls made into the library, the sink and the clock by `call`
    result,             \* how `call` ended: "running", "returned" or the exception
    remote,             \* the remote host's file tree, and the order its listings come in
    local,              \* the local file system: the directories and the files there
    transfer                  \* history: arguments and steps of the last download operation

vars == <<hasWinerror, connection_timeout, connected, ssh_channel, client, lifecycle,
          opening, scope, pc, call, wait, elapsed, trace, result, remote, local, transfer>>

(***************************************************************************)
(* Bounds of the model.                                                    *)
(***************************************************************************)
MaxConnTimeout == 2     \* connection_timeout ranges over 0..MaxConnTimeout seconds
MaxAttemptTicks == 2    \* a connect / invoke_shell attempt blocks 0..MaxAttemptTicks ticks
MaxExecTicks == 1       \* a one-shot command blocks 0..MaxExecTicks ticks
MaxWaitTimeout == 2     \* integer timeouts of the service wait: 0..MaxWaitTimeout seconds
MaxInterval == 2        \* interval of the service wait: 1..MaxInterval ticks
MaxPolls == 3           \* polls of a loop that has no time limit of its own
MaxEntries == 3         \* directories and files of the remote tree, below its root

(***************************************************************************)
(* Sleeps of the code, in ticks.                                           *)
(***************************************************************************)
RetryBackoff == 2          \* time.sleep(1) of Connection._handle_error
ChannelRetryBackoff == 2   \* time.sleep(1) of Channel.open
PollSleep == 1             \* time.sleep(0.5) of Channel.exec_command

Ticks(seconds) == 2 * seconds

Last(s) == s[Len(s)]

Has(s, e) == \E i \in 1..Len(s) : s[i] = e

Count(s, e) == Cardinality({i \in 1..Len(s) : s[i] = e})

RECURSIVE Repeat(_, _)
Repeat(s, n) == IF n = 0 THEN <<>> ELSE s \o Repeat(s, n - 1)

(***************************************************************************)
(* Exceptions, as `result` names them.                                     *)
(***************************************************************************)
NotConnected == "SshException: Connection is not created"
ChannelNotOpened == "SshException: Ssh chanel is not opened"
WaitExpired == "SshException: waiting time has expired"
SftpNotCreated == "SftpExceptions: Sftp channel not created"
FileNotFound == "FileNotFoundError"
AttributeErr == "AttributeError"
LibraryErr == "library error"
NotADirectory == "SftpExceptions: Remote object is not a directory"
FileExists == "FileExistsError"
IsADirectory == "IsADirectoryError"

NoWait == [timeout |-> [kind |-> "None", ticks |-> 0], interval |-> 0,
           stdout |-> FALSE, status_bar |-> FALSE,
           polls |-> 0, lastStatus |-> "none", lastQuery |-> 0, prevCheck |-> -1]

NewCall(op) == [op |-> op, wasConnected |-> connected, wasChannel |-> ssh_channel,
                wasClient |-> client]

(***************************************************************************)
(* The remote host's file tree and the local file system.  A path is the   *)
(* sequence of its components; the empty sequence is the empty string.     *)
(***************************************************************************)
Names == {"a", "b"}

RemoteRoot == <<"src">>

EmptyTree == [dirs |-> {RemoteRoot}, files |-> {}]

\* The paths a tree has no entry at yet, inside one of its directories.
Free(t) == {Append(d, n) : d \in t.dirs, n \in Names} \ (t.dirs \cup t.files)

Grow(t) == {[t EXCEPT !.dirs = @ \cup {p}] : p \in Free(t)}
               \cup {[t EXCEPT !.files = @ \cup {p}] : p \in Free(t)}

RECURSIVE TreesUpTo(_)
TreesUpTo(n) ==
    IF n = 0 THEN {EmptyTree}
    ELSE LET T == TreesUpTo(n - 1) IN T \cup UNION {Grow(t) : t \in T}

\* Every tree under RemoteRoot of at most MaxEntries directories and files.
RemoteTrees == TreesUpTo(MaxEntries)

\* listdir_attr returns the entries of a directory in an order of the server's.
Orders == {<<"a", "b">>, <<"b", "a">>}

NoLocal == [dirs |-> {}, files |-> {}]

NoDownload == [remote |-> <<>>, local |-> <<>>, before |-> NoLocal,
               calls |-> <<>>, visits |-> <<>>, again |-> FALSE]

InitProgram ==
    /\ hasWinerror \in BOOLEAN
    /\ connection_timeout \in 0..MaxConnTimeout
    /\ connected = FALSE
    /\ ssh_channel = "None"
    /\ client = "None"
    /\ lifecycle = "never"
    /\ opening = "never"
    /\ scope = [ssh |-> FALSE, channel |-> FALSE, sftp |-> FALSE]
    /\ pc = "idle"
    /\ call = [op |-> "__init__", wasConnected |-> FALSE, wasChannel |-> "None",
               wasClient |-> "None"]
    /\ wait = NoWait
    /\ elapsed = 0
    /\ trace = <<>>
    /\ result = "returned"
    /\ local = NoLocal
    /\ transfer = NoDownload

\* The facades that transfer no tree are used against an empty remote directory.
Init == InitProgram /\ remote = [tree |-> EmptyTree, order |-> <<"a", "b">>]

\* The downloads are used against every remote tree of the bound, from one host
\* (no download reads the platform or the timeout of the connection).
InitDownload ==
    /\ InitProgram
    /\ ~hasWinerror
    /\ connection_timeout = 1
    /\ \E t \in RemoteTrees, o \in Orders : remote = [tree |-> t, order |-> o]

(***************************************************************************)
(* Connection                                                              *)
(***************************************************************************)
connection_check == connected

\* while (time.time() - start_time) < connection_timeout and not self.__connected
CreateLoopCond == elapsed < Ticks(connection_timeout) /\ ~connected

\* What client.connect can answer: the session, or one of the failure classes.
\* An OSError with winerror 10060 exists on Windows only.
ConnectAnswers ==
    {"ok", "AuthenticationException", "SSHException", "ConnectionError", "OSError"}
        \cup (IF hasWinerror THEN {"OSError10060"} ELSE {})

\* The except clause an answer lands in, and the message it logs.
HandledMessage(answer) ==
    CASE answer = "AuthenticationException" -> "Authentication failed"
      [] answer = "SSHException" -> "SSH error"
      [] answer = "ConnectionError" -> "Connection Error"
      [] answer = "OSError10060" -> "Network error: WinError 10060"
      [] answer = "OSError" -> "Network error"

\* `osError.winerror` is evaluated in the OSError clause; the attribute exists
\* on Windows only, elsewhere reading it raises AttributeError.
ReadsWinerror(answer) == answer \in {"OSError", "OSError10060"}

\* Starting Connection.create(): start_time = time.time().
StartCreate(op) ==
    /\ pc' = "create"
    /\ call' = NewCall(op)
    /\ elapsed' = 0
    /\ trace' = <<>>
    /\ result' = "running"
    /\ wait' = NoWait
    /\ lifecycle' = "creating"

\* One iteration of the loop of create(): the attempt, and on failure the
\* handler with its log and its sleep.
CreateAttempt ==
    /\ pc = "create"
    /\ CreateLoopCond
    /\ \E answer \in ConnectAnswers, d \in 0..MaxAttemptTicks :
        IF answer = "ok"
        THEN /\ connected' = TRUE
             /\ elapsed' = elapsed + d
             /\ trace' = trace \o <<"client.connect: ok">>
             /\ UNCHANGED <<pc, result, lifecycle>>
        ELSE IF ReadsWinerror(answer) /\ ~hasWinerror
        THEN /\ pc' = "idle"
             /\ result' = AttributeErr
             /\ elapsed' = elapsed + d
             /\ trace' = trace \o <<"client.connect: failed">>
             /\ lifecycle' = "raised"
             /\ UNCHANGED connected
        ELSE /\ elapsed' = elapsed + d + RetryBackoff
             /\ trace' = trace \o <<"client.connect: failed",
                                    "log_out: " \o HandledMessage(answer), "sleep">>
             /\ UNCHANGED <<connected, pc, result, lifecycle>>
    /\ UNCHANGED <<hasWinerror, connection_timeout, remote, local, transfer,
                   ssh_channel, client, opening, scope, call, wait>>

\* Leaving the loop of create(): back in the operation that called it.
\* client.open_sftp() needs the session's transport: without a live session the
\* library raises (AttributeError on the missing transport).
OpenSftpAnswers == IF connected THEN {"ok", "SSHException"} ELSE {AttributeErr}

\* Sftp.connect, line 68: self.client = self.connection.client.open_sftp()
OpenSftp(enter, t) ==
    \E answer \in OpenSftpAnswers :
        /\ trace' = t \o <<"client.open_sftp">>
        /\ IF answer = "ok"
           THEN /\ client' = "open"
                /\ result' = "returned"
                /\ scope' = IF enter THEN [scope EXCEPT !.sftp = TRUE] ELSE scope
           ELSE /\ result' = (IF answer = AttributeErr THEN AttributeErr ELSE LibraryErr)
                /\ UNCHANGED <<client, scope>>

CreateReturn ==
    /\ pc = "create"
    /\ ~CreateLoopCond
    /\ pc' = "idle"
    /\ lifecycle' = IF connected THEN "connected" ELSE "timed out"
    /\ CASE call.op = "Ssh.connect" ->
                /\ result' = "returned"
                /\ UNCHANGED <<scope, client, trace>>
         [] call.op = "Ssh.__enter__" ->
                /\ result' = "returned"
                /\ scope' = [scope EXCEPT !.ssh = TRUE]
                /\ UNCHANGED <<client, trace>>
         [] call.op = "Sftp.connect" -> OpenSftp(FALSE, trace)
         [] call.op = "Sftp.__enter__" -> OpenSftp(TRUE, trace)
    /\ UNCHANGED <<hasWinerror, connection_timeout, remote, local, transfer, connected,
                   ssh_channel, opening, call, wait, elapsed>>

\* delete(): if self.__connected: self.client.close(); self.__connected = False
DeleteClosesSession == connected

DeleteFlag_Kept == TRUE

DeleteFlag == FALSE

\* Closing the session closes what was opened on it: the handles the Channel and
\* the Sftp hold stay in their fields, closed.
Delete ==
    /\ trace' = IF DeleteClosesSession THEN <<"client.close">> ELSE <<>>
    /\ connected' = IF connected THEN DeleteFlag ELSE connected
    /\ ssh_channel' = IF DeleteClosesSession /\ ssh_channel = "open"
                      THEN "closed" ELSE ssh_channel
    /\ client' = IF DeleteClosesSession /\ client = "open" THEN "closed" ELSE client
    /\ lifecycle' = IF DeleteClosesSession THEN "closed" ELSE lifecycle

\* A public operation that runs in one step.
Atomic(op) ==
    /\ pc = "idle"
    /\ pc' = "idle"
    /\ call' = NewCall(op)
    /\ elapsed' = 0
    /\ wait' = NoWait

\* The caller asking the Connection of the Ssh: ssh.connection.connection_check()
\* returns self.__connected
ConnectionCheck ==
    /\ Atomic("Connection.connection_check")
    /\ trace' = <<>>
    /\ result' = IF connection_check THEN "True" ELSE "False"
    /\ UNCHANGED <<hasWinerror, connection_timeout, remote, local, transfer, lifecycle,
                   opening, connected, ssh_channel, client, scope>>

(***************************************************************************)
(* Ssh                                                                     *)
(***************************************************************************)
\* the guard left out
connected_ssh_client_only_Unguarded == TRUE

\* @connected_ssh_client_only: the call goes on iff connection_check() is true
connected_ssh_client_only == connection_check

\* Ssh.connect(): self.connection.create()
SshConnect ==
    /\ pc = "idle"
    /\ StartCreate("Ssh.connect")
    /\ UNCHANGED <<hasWinerror, connection_timeout, remote, local, transfer, opening,
                   connected, ssh_channel, client, scope>>

\* Ssh.__enter__(): self.connect(); return self
SshEnter ==
    /\ pc = "idle"
    /\ ~scope.ssh
    /\ StartCreate("Ssh.__enter__")
    /\ UNCHANGED <<hasWinerror, connection_timeout, remote, local, transfer, opening,
                   connected, ssh_channel, client, scope>>

\* Ssh.close(): self.connection.delete()
SshClose ==
    /\ Atomic("Ssh.close")
    /\ Delete
    /\ result' = "returned"
    /\ UNCHANGED <<hasWinerror, connection_timeout, remote, local, transfer, opening,
                   scope>>

\* close() skipped when the body raised
ExitCloses_OnSuccessOnly(exc) == ~exc

\* What Ssh.__exit__ does with the exception of the body: self.close() either way.
ExitCloses(exc) == TRUE

\* Ssh.__exit__(exc_type, exc_val, exc_tb): self.close(); exc says whether the body raised
SshExit ==
    /\ scope.ssh
    /\ \E exc \in BOOLEAN :
        /\ Atomic(IF exc THEN "Ssh.__exit__ (body raised)" ELSE "Ssh.__exit__")
        /\ IF ExitCloses(exc)
           THEN Delete
           ELSE /\ trace' = <<>>
                /\ UNCHANGED <<connected, ssh_channel, client, lifecycle>>
    /\ result' = "returned"
    /\ scope' = [scope EXCEPT !.ssh = FALSE]
    /\ UNCHANGED <<hasWinerror, connection_timeout, remote, local, transfer, opening>>

\* One guarded call of Ssh.exec_command: the calls it makes and whether it
\* raised.  client.exec_command, then both streams read to their end and the exit
\* status.  On a live connection the remote command is taken to terminate and
\* its streams to be readable, so that the call returns.
ExecCalls(command) ==
    IF connected_ssh_client_only THEN <<"client.exec_command: " \o command>> ELSE <<>>

ExecRaises == ~connected_ssh_client_only

\* Ssh.exec_command(command)
SshExecCommand ==
    /\ Atomic("Ssh.exec_command")
    /\ trace' = ExecCalls("command")
    /\ result' = IF ExecRaises THEN NotConnected ELSE "returned"
    /\ UNCHANGED <<hasWinerror, connection_timeout, remote, local, transfer, lifecycle,
                   opening, connected, ssh_channel, client, scope>>

\* Ssh.get_service_log(service_name, line_num): exec_command('journalctl -n ...').stdout
GetServiceLog ==
    /\ Atomic("Ssh.get_service_log")
    /\ trace' = ExecCalls("journalctl -n 20")
    /\ result' = IF ExecRaises THEN NotConnected ELSE "returned"
    /\ UNCHANGED <<hasWinerror, connection_timeout, remote, local, transfer, lifecycle,
                   opening, connected, ssh_channel, client, scope>>

\* The arguments wait_execute_service is called with.  timeout is None, a whole
\* number of seconds (an int) or a fractional one (a float); interval is in ticks.
WaitTimeouts ==
    {[kind |-> "None", ticks |-> 0]}
        \cup {[kind |-> "int", ticks |-> Ticks(n)] : n \in 0..MaxWaitTimeout}
        \cup {[kind |-> "float", ticks |-> t] :
                t \in {u \in 1..Ticks(MaxWaitTimeout) : u % 2 = 1}}

\* What `systemctl is-active` prints.
Statuses == {"active", "inactive", "activating"}

\* the polarity turned round: waiting until the service is active
ServiceActive_Inverted(status) == status /= "active"

\* while self.exec_command(is_active_cmd, ...).stdout == 'active'
ServiceActive(status) == status = "active"

\* > for >=
TimeoutExpired_Strict(timeout, now) == timeout.kind = "int" /\ now > timeout.ticks

\* isinstance(timeout, int) and (time.time() - start_time) >= timeout
TimeoutExpired(timeout, now) == timeout.kind = "int" /\ now >= timeout.ticks

\* the finally block without `if status_bar: status.stop()`
FinallyCalls_NoStop(t) ==
    t \o (IF wait.stdout /\ ~ExecRaises
          THEN ExecCalls("journalctl -n 1000") \o <<"print: service log">>
          ELSE <<>>)

\* The finally block of wait_execute_service, entered with `pending` (returning,
\* or the exception on its way out) after the calls `t`: stop the indicator,
\* then print the log tail, whose query is guarded like every exec_command.
FinallyCalls(t) ==
    t \o (IF wait.status_bar THEN <<"status.stop">> ELSE <<>>)
      \o (IF wait.stdout /\ ~ExecRaises
          THEN ExecCalls("journalctl -n 1000") \o <<"print: service log">>
          ELSE <<>>)

FinallyResult(pending) == IF wait.stdout /\ ExecRaises THEN NotConnected ELSE pending

\* wait_execute_service(service_name, timeout, stdout, status_bar, interval), up
\* to start_time = time.time()
WaitExecuteService ==
    /\ pc = "idle"
    /\ \E timeout \in WaitTimeouts, interval \in 1..MaxInterval,
          stdout \in BOOLEAN, status_bar \in BOOLEAN :
        /\ wait' = [NoWait EXCEPT !.timeout = timeout, !.interval = interval,
                                  !.stdout = stdout, !.status_bar = status_bar]
        /\ trace' = IF status_bar THEN <<"status.start">> ELSE <<"print: waiting">>
    /\ pc' = "wait"
    /\ call' = NewCall("Ssh.wait_execute_service")
    /\ elapsed' = 0
    /\ result' = "running"
    /\ UNCHANGED <<hasWinerror, connection_timeout, remote, local, transfer, lifecycle,
                   opening, connected, ssh_channel, client, scope>>

\* One evaluation of the loop condition and, while the service is active, one
\* run of the loop body; leaving the loop runs the finally block.
\* d and dl are the ticks the status query and the log query block for.
WaitPoll ==
    /\ pc = "wait"
    /\ IF ExecRaises
       THEN /\ pc' = "idle"
            /\ result' = FinallyResult(NotConnected)
            /\ trace' = FinallyCalls(trace)
            /\ wait' = [wait EXCEPT !.polls = @ + 1]
            /\ UNCHANGED elapsed
       ELSE \E status \in Statuses, d \in 0..MaxExecTicks, dl \in 0..MaxExecTicks :
            /\ wait.status_bar \/ dl = 0
            /\ ServiceActive(status) => (wait.timeout.kind = "int" \/ wait.polls < MaxPolls)
            /\ LET asked == trace \o ExecCalls("systemctl is-active")
                   body == asked
                            \o (IF wait.status_bar
                                THEN ExecCalls("journalctl -n 20") \o <<"status.update">>
                                ELSE <<>>)
                            \o <<"sleep">>
                   now == elapsed + d + dl + wait.interval
               IN  IF ~ServiceActive(status)
                   THEN /\ pc' = "idle"
                        /\ result' = FinallyResult("returned")
                        /\ trace' = FinallyCalls(asked)
                        /\ elapsed' = elapsed + d
                        /\ wait' = [wait EXCEPT !.polls = @ + 1, !.lastStatus = status,
                                                !.lastQuery = d]
                   ELSE IF TimeoutExpired(wait.timeout, now)
                   THEN /\ pc' = "idle"
                        /\ result' = FinallyResult(WaitExpired)
                        /\ trace' = FinallyCalls(body \o <<"timeout check">>)
                        /\ elapsed' = now
                        /\ wait' = [wait EXCEPT !.polls = @ + 1, !.lastStatus = status,
                                                !.lastQuery = d + dl]
                   ELSE /\ trace' = body \o <<"timeout check">>
                        /\ elapsed' = now
                        /\ wait' = [wait EXCEPT !.polls = @ + 1, !.lastStatus = status,
                                                !.lastQuery = d + dl, !.prevCheck = now]
                        /\ UNCHANGED <<pc, result>>
    /\ UNCHANGED <<hasWinerror, connection_timeout, remote, local, transfer, lifecycle,
                   opening, connected, ssh_channel, client, scope, call>>

(***************************************************************************)
(* Channel                                                                 *)
(***************************************************************************)
\* the guard left out
connected_channel_only_Unguarded == TRUE

\* @connected_channel_only: the call goes on iff self.ssh_channel is truthy; a
\* handle is truthy whether it is open or closed.
connected_channel_only == ssh_channel /= "None"

\* while (time.time() - start_time) < connection_timeout and self.ssh_channel is None
OpenLoopCond == elapsed < Ticks(connection_timeout) /\ ssh_channel = "None"

\* client.invoke_shell() opens a session on the transport: without a live session
\* the library raises (AttributeError on the missing transport), with one it
\* gives the channel or raises SSHException.
InvokeShellAnswers == IF connected THEN {"ok", "SSHException"} ELSE {AttributeErr}

StartOpen(op) ==
    /\ pc = "idle"
    /\ pc' = "open"
    /\ call' = NewCall(op)
    /\ elapsed' = 0
    /\ trace' = <<>>
    /\ result' = "running"
    /\ wait' = NoWait
    /\ UNCHANGED <<hasWinerror, connection_timeout, remote, local, transfer, lifecycle,
                   opening, connected, ssh_channel, client, scope>>

\* Channel.open()
ChannelOpen == StartOpen("Channel.open")

\* Channel.__enter__(): self.open(); return self.ssh_channel
ChannelEnter == ~scope.channel /\ StartOpen("Channel.__enter__")

\* One iteration of the loop of open()
OpenAttempt ==
    /\ pc = "open"
    /\ OpenLoopCond
    /\ \E answer \in InvokeShellAnswers, d \in 0..MaxAttemptTicks :
        CASE answer = "ok" ->
                /\ ssh_channel' = "open"
                /\ elapsed' = elapsed + d
                /\ trace' = trace \o <<"client.invoke_shell: ok">>
                /\ opening' = "opened"
                /\ UNCHANGED <<pc, result>>
          [] answer = "SSHException" ->
                /\ elapsed' = elapsed + d + ChannelRetryBackoff
                /\ trace' = trace \o <<"client.invoke_shell: failed",
                                       "log_out: SSH error", "sleep">>
                /\ UNCHANGED <<ssh_channel, pc, result, opening>>
          [] answer = AttributeErr ->
                /\ pc' = "idle"
                /\ result' = AttributeErr
                /\ elapsed' = elapsed + d
                /\ trace' = trace \o <<"client.invoke_shell: failed">>
                /\ opening' = IF opening = "opened" THEN opening ELSE "raised"
                /\ UNCHANGED ssh_channel
    /\ UNCHANGED <<hasWinerror, connection_timeout, remote, local, transfer, lifecycle,
                   connected, client, scope, call, wait>>

OpenReturn ==
    /\ pc = "open"
    /\ ~OpenLoopCond
    /\ pc' = "idle"
    /\ result' = "returned"
    /\ opening' = IF opening = "opened" THEN opening ELSE "timed out"
    /\ scope' = IF call.op = "Channel.__enter__"
                THEN [scope EXCEPT !.channel = TRUE] ELSE scope
    /\ UNCHANGED <<hasWinerror, connection_timeout, remote, local, transfer, lifecycle,
                   connected, ssh_channel, client, call, wait, elapsed, trace>>

\* Channel.exec_command(command): send, poll recv_ready every half second, one
\* recv(1024).  polls is the number of polls that find nothing to read yet.  On a
\* closed handle send raises.
ChannelExecCommand ==
    /\ pc = "idle"
    /\ pc' = "idle"
    /\ call' = NewCall("Channel.exec_command")
    /\ wait' = NoWait
    /\ IF ~connected_channel_only
       THEN /\ result' = ChannelNotOpened
            /\ trace' = <<>>
            /\ elapsed' = 0
       ELSE IF ssh_channel = "closed"
       THEN /\ result' = LibraryErr
            /\ trace' = <<"channel.send">>
            /\ elapsed' = 0
       ELSE \E polls \in 0..MaxPolls :
            /\ result' = "returned"
            /\ trace' = <<"channel.send">>
                          \o Repeat(<<"channel.recv_ready", "sleep">>, polls)
                          \o <<"channel.recv_ready", "channel.recv">>
            /\ elapsed' = polls * PollSleep
    /\ UNCHANGED <<hasWinerror, connection_timeout, remote, local, transfer, lifecycle,
                   opening, connected, ssh_channel, client, scope>>

\* close() behind `if self.ssh_channel`
CloseChannel_Guarded ==
    /\ result' = "returned"
    /\ IF ssh_channel = "None"
       THEN /\ trace' = <<>>
            /\ UNCHANGED ssh_channel
       ELSE /\ trace' = <<"channel.close">>
            /\ ssh_channel' = "closed"

\* self.ssh_channel.close(): on None it raises AttributeError
CloseChannel ==
    IF ssh_channel = "None"
    THEN /\ result' = AttributeErr
         /\ trace' = <<>>
         /\ UNCHANGED ssh_channel
    ELSE /\ result' = "returned"
         /\ trace' = <<"channel.close">>
         /\ ssh_channel' = "closed"

\* Channel.close()
ChannelClose ==
    /\ Atomic("Channel.close")
    /\ CloseChannel
    /\ UNCHANGED <<hasWinerror, connection_timeout, remote, local, transfer, lifecycle,
                   opening, connected, client, scope>>

\* Channel.__exit__(exc_type, exc_val, exc_tb): self.close()
ChannelExit ==
    /\ scope.channel
    /\ Atomic("Channel.__exit__")
    /\ CloseChannel
    /\ scope' = [scope EXCEPT !.channel = FALSE]
    /\ UNCHANGED <<hasWinerror, connection_timeout, remote, local, transfer, lifecycle,
                   opening, connected, client>>

(***************************************************************************)
(* An Ssh facade and its Connection: connecting, one-shot commands and the *)
(* service wait.                                                           *)
(***************************************************************************)
Next ==
    \/ SshConnect
    \/ SshEnter
    \/ CreateAttempt
    \/ CreateReturn
    \/ SshClose
    \/ SshExit
    \/ SshExecCommand
    \/ GetServiceLog
    \/ WaitExecuteService
    \/ WaitPoll
    \/ ConnectionCheck

Spec == Init /\ [][Next]_vars

(***************************************************************************)
(* An Ssh facade, its Connection and the Channel it builds on the          *)
(* Connection's session.                                                   *)
(***************************************************************************)
NextChannel ==
    \/ SshConnect
    \/ CreateAttempt
    \/ CreateReturn
    \/ SshClose
    \/ SshExecCommand
    \/ ChannelOpen
    \/ ChannelEnter
    \/ OpenAttempt
    \/ OpenReturn
    \/ ChannelExecCommand
    \/ ChannelClose
    \/ ChannelExit

SpecChannel == Init /\ [][NextChannel]_vars

(***************************************************************************)
(* Sftp                                                                    *)
(***************************************************************************)
\* @connected_sftp_only: the call goes on iff self.client is truthy; a handle is
\* truthy whether it is open or closed.
connected_sftp_only == client /= "None"

\* Sftp.connect(): if not self.connection.connection_check(): self.connection.create()
\* and then self.client = self.connection.client.open_sftp()
StartSftpConnect(op, enter) ==
    /\ pc = "idle"
    /\ IF ~connection_check
       THEN /\ StartCreate(op)
            /\ UNCHANGED <<client, scope>>
       ELSE /\ Atomic(op)
            /\ OpenSftp(enter, <<>>)
            /\ UNCHANGED lifecycle
    /\ UNCHANGED <<hasWinerror, connection_timeout, remote, local, transfer, opening,
                   connected, ssh_channel>>

SftpConnect == StartSftpConnect("Sftp.connect", FALSE)

\* Sftp.__enter__(): self.connect(); return self
SftpEnter == ~scope.sftp /\ StartSftpConnect("Sftp.__enter__", TRUE)

\* Sftp.close(): if self.client: self.client.close()
CloseSftp ==
    IF client /= "None"
    THEN /\ client' = "closed"
         /\ trace' = <<"sftp.close">>
    ELSE /\ trace' = <<>>
         /\ UNCHANGED client

SftpClose ==
    /\ Atomic("Sftp.close")
    /\ CloseSftp
    /\ result' = "returned"
    /\ UNCHANGED <<hasWinerror, connection_timeout, remote, local, transfer, lifecycle,
                   opening, connected, ssh_channel, scope>>

\* Sftp.__exit__(exc_type, exc_val, exc_tb): self.close()
SftpExit ==
    /\ scope.sftp
    /\ \E exc \in BOOLEAN :
        Atomic(IF exc THEN "Sftp.__exit__ (body raised)" ELSE "Sftp.__exit__")
    /\ CloseSftp
    /\ result' = "returned"
    /\ scope' = [scope EXCEPT !.sftp = FALSE]
    /\ UNCHANGED <<hasWinerror, connection_timeout, remote, local, transfer, lifecycle,
                   opening, connected, ssh_channel>>

\* if not exists(local): raise FileNotFoundError
LocalFileOk(exists) == exists

\* Sftp.upload_file(local, remote): the guard, the local file, then
\* self.client.put(localpath, remotepath, confirm=True).  On a closed handle put
\* raises; on an open one it may fail too (the confirming stat disagrees).
SftpUploadFile ==
    /\ Atomic("Sftp.upload_file")
    /\ \E exists \in BOOLEAN, answer \in {"ok", "IOError"} :
        IF ~connected_sftp_only
        THEN /\ result' = SftpNotCreated
             /\ trace' = <<>>
        ELSE IF ~LocalFileOk(exists)
        THEN /\ result' = FileNotFound
             /\ trace' = <<"exists: False">>
        ELSE /\ trace' = <<"exists: True", "log_out: Uploading file",
                           "sftp.put(confirm=True)">>
             /\ result' = IF client = "open" /\ answer = "ok"
                          THEN "returned" ELSE LibraryErr
    /\ UNCHANGED <<hasWinerror, connection_timeout, remote, local, transfer, lifecycle,
                   opening, connected, ssh_channel, client, scope>>

\* The caller releasing the Connection of the Sftp by hand:
\* sftp.connection.delete()
ConnectionDelete ==
    /\ Atomic("Connection.delete")
    /\ Delete
    /\ result' = "returned"
    /\ UNCHANGED <<hasWinerror, connection_timeout, remote, local, transfer, opening,
                   scope>>

(***************************************************************************)
(* Sftp: the downloads.  One download is a run over a record `st`: the     *)
(* local file system as it is by now, the methods of the Sftp entered, the *)
(* calls made into the library and the file system, and the exception, if  *)
(* one is on its way out.                                                  *)
(***************************************************************************)
\* posixpath.join(path, name), os.path.dirname(path)
join(path, name) == Append(path, name)

dirname(path) == IF path = <<>> THEN <<>> ELSE SubSeq(path, 1, Len(path) - 1)

RECURSIVE Render(_)
Render(path) ==
    IF path = <<>> THEN ""
    ELSE IF Len(path) = 1 THEN path[1]
    ELSE Render(dirname(path)) \o "/" \o Last(path)

Prefixes(path) == {SubSeq(path, 1, k) : k \in 1..Len(path)}

\* stat.S_ISDIR(self.client.lstat(remote).st_mode), for a path that exists
S_ISDIR(path) == path \in remote.tree.dirs

RemoteExists(path) == path \in remote.tree.dirs \cup remote.tree.files

\* self.client.listdir_attr(remote): the names of the entries, in the server's order
listdir_attr(path) ==
    LET Present(n) == RemoteExists(join(path, n))
    IN  SelectSeq(remote.order, Present)

\* exist_ok=True of both os.makedirs calls
exist_ok_Default == FALSE

exist_ok == TRUE

\* os.makedirs(path, exist_ok): the empty path is no directory to make; a file in
\* the way fails it; a directory that is there fails it unless exist_ok.
makedirs(fs, path, ok) ==
    IF path = <<>> THEN [fs |-> fs, err |-> FileNotFound]
    ELSE IF Prefixes(path) \cap fs.files /= {} THEN [fs |-> fs, err |-> FileExists]
    ELSE IF path \in fs.dirs /\ ~ok THEN [fs |-> fs, err |-> FileExists]
    ELSE [fs |-> [fs EXCEPT !.dirs = @ \cup Prefixes(path)], err |-> "none"]

NewRun == [fs |-> local, calls |-> <<>>, visits |-> <<>>, err |-> "none"]

Visit(st, op, r, l) == [st EXCEPT !.visits = Append(@, [op |-> op, r |-> r, l |-> l])]

Entered(st, m, r, l) == [st EXCEPT !.calls = Append(@, [m |-> m, r |-> r, l |-> l])]

Raise(st, e) == [st EXCEPT !.err = e]

\* self.client.lstat(remote): fails on a closed handle and on a path that is not there
Lstat(st, r) ==
    LET v == Visit(st, "lstat", r, <<>>)
    IN  IF client = "open" /\ RemoteExists(r) THEN v ELSE Raise(v, LibraryErr)

Makedirs(st, l) ==
    LET v == Visit(st, "makedirs", <<>>, l)
        m == makedirs(st.fs, l, exist_ok)
    IN  IF m.err = "none" THEN [v EXCEPT !.fs = m.fs] ELSE Raise(v, m.err)

\* self.client.get(remotepath, localpath): the library opens the local file for
\* writing, then reads the remote file into it.
Get(st, r, l) ==
    LET v == Visit(st, "get", r, l)
    IN  IF l \in st.fs.dirs THEN Raise(v, IsADirectory)
        ELSE IF dirname(l) /= <<>> /\ dirname(l) \notin st.fs.dirs
        THEN Raise(v, FileNotFound)
        ELSE LET w == [v EXCEPT !.fs.files = @ \cup {l}]
             IN  IF client = "open" /\ r \in remote.tree.files
                 THEN w ELSE Raise(w, LibraryErr)

\* Sftp.download_file(remote, local): the guard, the log line,
\* os.makedirs(os.path.dirname(local), exist_ok=True), self.client.get
download_file(st, r, l) ==
    IF st.err /= "none" THEN st
    ELSE IF ~connected_sftp_only THEN Raise(st, SftpNotCreated)
    ELSE LET s1 == Visit(Entered(st, "download_file", r, l), "log_out", r, l)
             s2 == Makedirs(s1, dirname(l))
         IN  IF s2.err /= "none" THEN s2 ELSE Get(s2, r, l)

\* if stat.S_ISDIR(entry.st_mode) of the loop in download_dir
EntryIsDir_Never(path) == FALSE

EntryIsDir(path) == S_ISDIR(path)

\* if not stat.S_ISDIR(self.client.lstat(remote).st_mode): raise SftpExceptions
RejectsNonDirectory(path) == ~S_ISDIR(path)

\* Sftp.download_dir(remote, local): the guard, the check of the remote path, the
\* log line, os.makedirs(local, exist_ok=True), and for each entry of the listing
\* download_dir or download_file on the joined paths.
RECURSIVE download_dir(_, _, _)
RECURSIVE download_entries(_, _, _, _)
download_dir(st, r, l) ==
    IF st.err /= "none" THEN st
    ELSE IF ~connected_sftp_only THEN Raise(st, SftpNotCreated)
    ELSE LET s1 == Lstat(Entered(st, "download_dir", r, l), r)
         IN  IF s1.err /= "none" THEN s1
             ELSE IF RejectsNonDirectory(r) THEN Raise(s1, NotADirectory)
             ELSE LET s2 == Makedirs(Visit(s1, "log_out", r, l), l)
                  IN  IF s2.err /= "none" THEN s2
                      ELSE IF ~S_ISDIR(r) THEN Raise(Visit(s2, "listdir_attr", r, <<>>),
                                                     LibraryErr)
                      ELSE download_entries(Visit(s2, "listdir_attr", r, <<>>),
                                            listdir_attr(r), r, l)

download_entries(st, names, r, l) ==
    IF names = <<>> \/ st.err /= "none" THEN st
    ELSE LET remote_filename == join(r, Head(names))
             local_filename == join(l, Head(names))
             s1 == IF EntryIsDir(remote_filename)
                   THEN download_dir(st, remote_filename, local_filename)
                   ELSE download_file(st, remote_filename, local_filename)
         IN  download_entries(s1, Tail(names), r, l)

\* if stat.S_ISDIR(self.client.lstat(remote).st_mode) of download
DispatchesToDir_Inverted(path) == ~S_ISDIR(path)

DispatchesToDir(path) == S_ISDIR(path)

\* Sftp.download(remote, local): the guard, then download_dir for a directory and
\* download_file for anything else.
download(st, r, l) ==
    IF ~connected_sftp_only THEN Raise(st, SftpNotCreated)
    ELSE LET s1 == Lstat(Entered(st, "download", r, l), r)
         IN  IF s1.err /= "none" THEN s1
             ELSE IF DispatchesToDir(r) THEN download_dir(s1, r, l)
             ELSE download_file(s1, r, l)

\* The remote paths a caller passes: an entry of the tree, or a path with no entry.
Missing == join(RemoteRoot, "zz")

RemoteArgs == remote.tree.dirs \cup remote.tree.files \cup {Missing}

\* The local target a caller passes for a remote path: its place under "dst".
Mirror(path) == <<"dst">> \o Tail(path)

\* download_file is passed a file of the tree, and a bare name as a target too.
BareName == <<"f">>

RenderVisit(v) ==
    CASE v.op = "lstat" -> "sftp.lstat: " \o Render(v.r)
      [] v.op = "listdir_attr" -> "sftp.listdir_attr: " \o Render(v.r)
      [] v.op = "makedirs" -> "makedirs: " \o Render(v.l)
      [] v.op = "get" -> "sftp.get: " \o Render(v.r) \o " -> " \o Render(v.l)
      [] v.op = "log_out" -> "log_out: Downloading " \o Render(v.r)

\* The end of a download: what it left on the local file system, what it called,
\* and whether it repeats the call before it.
Downloaded(op, r, l, st) ==
    /\ local' = st.fs
    /\ trace' = [i \in 1..Len(st.visits) |-> RenderVisit(st.visits[i])]
    /\ result' = IF st.err = "none" THEN "returned" ELSE st.err
    /\ transfer' = [remote |-> r, local |-> l, before |-> local, calls |-> st.calls,
              visits |-> st.visits,
              again |-> /\ call.op = op
                        /\ result = "returned"
                        /\ transfer.remote = r
                        /\ transfer.local = l]
    /\ UNCHANGED <<hasWinerror, connection_timeout, remote, lifecycle, opening,
                   connected, ssh_channel, client, scope>>

SftpDownload ==
    /\ Atomic("Sftp.download")
    /\ \E r \in RemoteArgs :
        Downloaded("Sftp.download", r, Mirror(r), download(NewRun, r, Mirror(r)))

SftpDownloadDir ==
    /\ Atomic("Sftp.download_dir")
    /\ \E r \in RemoteArgs :
        Downloaded("Sftp.download_dir", r, Mirror(r), download_dir(NewRun, r, Mirror(r)))

SftpDownloadFile ==
    /\ Atomic("Sftp.download_file")
    /\ \E r \in remote.tree.files : \E l \in {Mirror(r), BareName} :
        Downloaded("Sftp.download_file", r, l, download_file(NewRun, r, l))

(***************************************************************************)
(* An Sftp facade, with the Connection it builds for itself.               *)
(***************************************************************************)
NextSftp ==
    \/ SftpConnect
    \/ SftpEnter
    \/ CreateAttempt
    \/ CreateReturn
    \/ SftpClose
    \/ SftpExit
    \/ SftpUploadFile
    \/ ConnectionDelete

SpecSftp == Init /\ [][NextSftp]_vars

(***************************************************************************)
(* An Sftp facade downloading from a remote tree.                          *)
(***************************************************************************)
NextDownload ==
    \/ SftpConnect
    \/ CreateAttempt
    \/ CreateReturn
    \/ SftpClose
    \/ SftpDownload
    \/ SftpDownloadDir
    \/ SftpDownloadFile

SpecDownload == InitDownload /\ [][NextDownload]_vars

(***************************************************************************)
(* Properties                                                              *)
(***************************************************************************)
Done(ops) == pc = "idle" /\ call.op \in ops

CreateOps == {"Ssh.connect", "Ssh.__enter__"}

NoAttemptSucceeded == trace /= <<>> /\ ~Has(trace, "client.connect: ok")

\* C1: when create() starts on an unconnected Connection and every attempt it
\* makes fails, it returns without raising, no later than connection_timeout plus
\* one retry sleep after it started, and connection_check() is false afterwards.
C1_CreateGivesUpQuietlyInTime ==
    (Done(CreateOps) /\ ~call.wasConnected /\ NoAttemptSucceeded)
        => /\ result = "returned"
           /\ elapsed <= Ticks(connection_timeout) + RetryBackoff
           /\ ~connection_check

SessionUse == {"channel.send", "channel.recv", "client.exec_command: command"}

GuardedSshOps == {"Ssh.exec_command", "Ssh.get_service_log", "Ssh.wait_execute_service"}

ChannelOps == {"Channel.open", "Channel.__enter__", "Channel.exec_command",
               "Channel.close", "Channel.__exit__"}

\* C2: no Channel operation and no Ssh.exec_command sends, receives or executes
\* on the session while connection_check() is false.
C2_NoSessionUseWhileDisconnected ==
    (call.op \in ChannelOps \cup {"Ssh.exec_command"} /\ ~connection_check)
        => \A i \in 1..Len(trace) : trace[i] \notin SessionUse

\* C3: as long as no open() has given a channel, Channel.exec_command fails with
\* the channel-not-open error and makes no call on the session; and when open()
\* has returned without a channel, the handle is unset.
C3_GuardedBeforeOpen ==
    /\ (Done({"Channel.exec_command"}) /\ opening /= "opened")
            => result = ChannelNotOpened /\ trace = <<>>
    /\ opening = "timed out" => ssh_channel = "None"

\* C3 witness: exec_command rejected after an open() whose every attempt failed
C3_Witness ==
    /\ Done({"Channel.exec_command"})
    /\ opening = "timed out"
    /\ connection_check
    /\ connection_timeout > 0
    /\ result = ChannelNotOpened

\* C4: once create() has run out of time without authenticating, connect() has
\* returned without raising, and every Ssh.exec_command, get_service_log and
\* wait_execute_service from then on fails with the not-connected error, with no
\* command issued, no authentication attempted, no sleep and a single poll.
C4_TimedOutConnectThenRejected ==
    lifecycle = "timed out" =>
        /\ ~connection_check
        /\ Done(CreateOps) => result = "returned"
        /\ Done(GuardedSshOps) =>
            /\ result = NotConnected
            /\ \A i \in 1..Len(trace) :
                    trace[i] \in {"status.start", "status.stop", "print: waiting"}
            /\ wait.polls <= 1

\* C4 witness: a service wait rejected after a connect() that timed out
C4_Witness ==
    /\ lifecycle = "timed out"
    /\ connection_timeout > 0
    /\ Done({"Ssh.wait_execute_service"})
    /\ wait.stdout
    /\ result = NotConnected

SshExits == {"Ssh.__exit__", "Ssh.__exit__ (body raised)"}

\* C5: leaving an Ssh scope, whether the body completed or raised, leaves the
\* Connection not connected and closes the session exactly once if it was
\* established and not at all otherwise.
C5_SshScopeCloses ==
    Done(SshExits) =>
        /\ ~connection_check
        /\ ~scope.ssh
        /\ trace = IF call.wasConnected THEN <<"client.close">> ELSE <<>>

\* C5 witness: the session closed on leaving a scope whose body raised
C5_Witness ==
    /\ Done({"Ssh.__exit__ (body raised)"})
    /\ call.wasConnected
    /\ trace = <<"client.close">>
    /\ ~connection_check

WaitOp == {"Ssh.wait_execute_service"}

\* A finished wait with an integer timeout, on a live connection, whose every
\* status query answered 'active'.
AlwaysActiveIntWait ==
    /\ Done(WaitOp)
    /\ call.wasConnected
    /\ wait.timeout.kind = "int"
    /\ wait.lastStatus = "active"

\* The last things the call did were the query of the 1000-line log tail and its
\* print.
TailEmitted ==
    /\ Len(trace) >= 2
    /\ trace[Len(trace) - 1] = "client.exec_command: journalctl -n 1000"
    /\ Last(trace) = "print: service log"

\* C8 as stated: with an integer timeout and a service that stays active the
\* timeout error is raised at the first check after a sleep at which the elapsed
\* time has reached the timeout, no earlier than timeout and no later than
\* timeout + interval after the start, and the log tail is emitted when echo is on.
C8_ExpiresWithinOneInterval ==
    AlwaysActiveIntWait =>
        /\ result = WaitExpired
        /\ wait.prevCheck < wait.timeout.ticks
        /\ elapsed >= wait.timeout.ticks
        /\ elapsed <= wait.timeout.ticks + wait.interval
        /\ wait.stdout => TailEmitted

\* C8 amended: as C8, but the error comes no later than timeout + interval plus
\* the time the queries of the last iteration took.
C8_ExpiresWithinOneIteration ==
    AlwaysActiveIntWait =>
        /\ result = WaitExpired
        /\ wait.prevCheck < wait.timeout.ticks
        /\ elapsed >= wait.timeout.ticks
        /\ elapsed <= wait.timeout.ticks + wait.interval + wait.lastQuery
        /\ wait.stdout => TailEmitted

\* C8 witness: timeout=2, interval=0.5, echo on, the service always active
C8_Witness ==
    /\ AlwaysActiveIntWait
    /\ wait.timeout.ticks = Ticks(2)
    /\ wait.interval = 1
    /\ wait.stdout
    /\ result = WaitExpired
    /\ TailEmitted

\* The status queries so far that answered 'active'.
ActiveAnswers ==
    CASE wait.lastStatus = "none" -> 0
      [] wait.lastStatus = "active" -> wait.polls
      [] OTHER -> wait.polls - 1

\* C9: wait_execute_service returns normally exactly when a status query answers
\* something other than 'active'; if the first answer is not 'active' it returns
\* without sleeping and without the timeout error whatever the timeout; and the
\* timeout is checked only right after a sleep, one sleep per 'active' answer.
C9_ReturnsWhenNoLongerActive ==
    call.op \in WaitOp =>
        /\ pc = "idle" =>
            (result = "returned" <=> wait.lastStatus \in Statuses \ {"active"})
        /\ (pc = "idle" /\ wait.polls = 1 /\ wait.lastStatus \in Statuses \ {"active"})
                => ~Has(trace, "sleep") /\ ~Has(trace, "timeout check")
        /\ \A i \in 1..Len(trace) :
                trace[i] = "timeout check" => i > 1 /\ trace[i - 1] = "sleep"
        /\ Count(trace, "sleep") = ActiveAnswers
        /\ Count(trace, "timeout check") = ActiveAnswers

\* C9 witness: the first answer is not 'active' and the timeout is 0
C9_Witness ==
    /\ Done(WaitOp)
    /\ wait.polls = 1
    /\ wait.lastStatus = "activating"
    /\ wait.timeout = [kind |-> "int", ticks |-> 0]
    /\ result = "returned"

SftpExits == {"Sftp.__exit__", "Sftp.__exit__ (body raised)"}

SftpConnectOps == {"Sftp.connect", "Sftp.__enter__"}

\* C6: after leaving an Sftp scope, whether the body completed or raised, the
\* sub-session is closed and the Connection the Sftp built is not connected.
C6_SftpScopeReleases ==
    Done(SftpExits) => client /= "open" /\ ~connection_check

\* C7: Sftp.connect() makes no authentication attempt on a live Connection, and
\* attempts to open the sub-session only when connection_check() is true.
C7_OpenSftpOnLiveConnectionOnly ==
    call.op \in SftpConnectOps =>
        /\ call.wasConnected =>
                ~Has(trace, "client.connect: ok") /\ ~Has(trace, "client.connect: failed")
        /\ Has(trace, "client.open_sftp") => connection_check

\* C10: upload_file with no sub-session open fails with the not-open error, with
\* one open and the local file missing with the file-not-found error, in neither
\* case calling put; with both it calls put once, with confirm.
C10_UploadPreconditions ==
    Done({"Sftp.upload_file"}) =>
        /\ client /= "open" =>
                result = SftpNotCreated /\ ~Has(trace, "sftp.put(confirm=True)")
        /\ (client = "open" /\ Has(trace, "exists: False")) =>
                result = FileNotFound /\ ~Has(trace, "sftp.put(confirm=True)")
        /\ (client = "open" /\ result \notin {SftpNotCreated, FileNotFound}) =>
                Count(trace, "sftp.put(confirm=True)") = 1

IsPrefix(p, q) == Len(p) <= Len(q) /\ SubSeq(q, 1, Len(p)) = p

\* The directories and the files of the remote tree at and below the path passed.
DirsUnder(r) == {d \in remote.tree.dirs : IsPrefix(r, d)}

FilesUnder(r) == {f \in remote.tree.files : IsPrefix(r, f)}

\* The local path at the same position relative to the target as p is to r.
Place(r, l, p) == l \o SubSeq(p, Len(r) + 1, Len(p))

Visits(op) == {i \in 1..Len(transfer.visits) : transfer.visits[i].op = op}

\* The first step and the last step of the run that concern the entry p.
FirstIndex(p) ==
    CHOOSE i \in 1..Len(transfer.visits) :
        /\ IsPrefix(p, transfer.visits[i].r)
        /\ \A j \in 1..(i - 1) : ~IsPrefix(p, transfer.visits[j].r)

LastIndex(p) ==
    CHOOSE i \in 1..Len(transfer.visits) :
        /\ IsPrefix(p, transfer.visits[i].r)
        /\ \A j \in (i + 1)..Len(transfer.visits) : ~IsPrefix(p, transfer.visits[j].r)

InListingOrder(d) ==
    LET listing == listdir_attr(d)
    IN  \A i, j \in 1..Len(listing) :
            i < j => LastIndex(join(d, listing[i])) < FirstIndex(join(d, listing[j]))

Mirrored(r, l) ==
    /\ \A d \in DirsUnder(r) : Place(r, l, d) \in local.dirs
    /\ \A f \in FilesUnder(r) : Place(r, l, f) \in local.files

TransferredOnce(r, l) ==
    /\ \A f \in FilesUnder(r) :
          Cardinality({i \in Visits("get") : /\ transfer.visits[i].r = f
                                             /\ transfer.visits[i].l = Place(r, l, f)}) = 1
    /\ \A i \in Visits("get") : transfer.visits[i].r \in FilesUnder(r)

\* C11: download_dir with an open sub-session, on a remote directory, returns
\* with every directory of the tree below it made locally, every file of it
\* transferred exactly once to the same relative position, the entries of each
\* directory visited in the order of its listing, and nothing else transferred;
\* on a remote file it raises the not-a-directory error, having made no local
\* directory and transferred nothing.
C11_DownloadDirMirrorsTree ==
    (Done({"Sftp.download_dir"}) /\ call.wasClient = "open"
        /\ RemoteExists(transfer.remote))
        => IF S_ISDIR(transfer.remote)
           THEN /\ result = "returned"
                /\ Mirrored(transfer.remote, transfer.local)
                /\ TransferredOnce(transfer.remote, transfer.local)
                /\ \A d \in DirsUnder(transfer.remote) : InListingOrder(d)
           ELSE /\ result = NotADirectory
                /\ local = transfer.before
                /\ Visits("makedirs") = {}
                /\ Visits("get") = {}

\* download_dir of the root of a tree that has a directory with a file in it
\* listed before a file, returned.
C11_Witness ==
    /\ Done({"Sftp.download_dir"})
    /\ call.wasClient = "open"
    /\ result = "returned"
    /\ transfer.remote = RemoteRoot
    /\ remote.order = <<"b", "a">>
    /\ remote.tree.dirs = {RemoteRoot, <<"src", "b">>}
    /\ remote.tree.files = {<<"src", "b", "a">>, <<"src", "a">>}
    /\ trace = <<"sftp.lstat: src", "log_out: Downloading src", "makedirs: dst",
                 "sftp.listdir_attr: src",
                 "sftp.lstat: src/b", "log_out: Downloading src/b", "makedirs: dst/b",
                 "sftp.listdir_attr: src/b",
                 "log_out: Downloading src/b/a", "makedirs: dst/b",
                 "sftp.get: src/b/a -> dst/b/a",
                 "log_out: Downloading src/a", "makedirs: dst",
                 "sftp.get: src/a -> dst/a">>

\* download_dir of a remote file, refused.
C11_WitnessNotADirectory ==
    /\ Done({"Sftp.download_dir"})
    /\ call.wasClient = "open"
    /\ transfer.remote \in remote.tree.files
    /\ result = NotADirectory

MethodEntered(m, r, l) == [m |-> m, r |-> r, l |-> l]

MethodsOn(m, r) ==
    {i \in 1..Len(transfer.calls) : transfer.calls[i].m = m /\ transfer.calls[i].r = r}

\* C12: download with an open sub-session, on a remote path whose mode bits say
\* directory, goes on into download_dir with its two arguments and never enters
\* download_file for that path; on any other remote path it goes on into
\* download_file with its two arguments and never enters download_dir.
C12_DownloadDispatchesOnMode ==
    (Done({"Sftp.download"}) /\ call.wasClient = "open" /\ RemoteExists(transfer.remote))
        => IF S_ISDIR(transfer.remote)
           THEN /\ Len(transfer.calls) >= 2
                /\ transfer.calls[2] =
                       MethodEntered("download_dir", transfer.remote, transfer.local)
                /\ MethodsOn("download_file", transfer.remote) = {}
           ELSE /\ transfer.calls =
                       <<MethodEntered("download", transfer.remote, transfer.local),
                         MethodEntered("download_file", transfer.remote, transfer.local)>>
                /\ \A i \in 1..Len(transfer.calls) : transfer.calls[i].m /= "download_dir"

\* download of a directory that holds a file: download_dir for the directory,
\* download_file for the file in it only.
C12_Witness ==
    /\ Done({"Sftp.download"})
    /\ call.wasClient = "open"
    /\ result = "returned"
    /\ transfer.remote = <<"src", "a">>
    /\ transfer.calls = <<MethodEntered("download", <<"src", "a">>, <<"dst", "a">>),
                          MethodEntered("download_dir", <<"src", "a">>, <<"dst", "a">>),
                          MethodEntered("download_file", <<"src", "a", "b">>,
                                        <<"dst", "a", "b">>)>>

\* download of a file.
C12_WitnessFile ==
    /\ Done({"Sftp.download"})
    /\ call.wasClient = "open"
    /\ result = "returned"
    /\ transfer.remote \in remote.tree.files
    /\ Has(trace, "sftp.get: src/a -> dst/a")

\* C13: a download_dir that repeats the download_dir before it (same remote
\* directory, same local target, the first one returned, nothing in between)
\* returns too, although every directory it makes is there already, and leaves
\* the local file system as the first call left it, the whole tree in place.
C13_DownloadDirTwice ==
    (Done({"Sftp.download_dir"}) /\ transfer.again)
        => /\ result = "returned"
           /\ \A i \in Visits("makedirs") : transfer.visits[i].l \in transfer.before.dirs
           /\ local = transfer.before
           /\ Mirrored(transfer.remote, transfer.local)

\* The second download_dir of a remote root that holds a directory with a file
\* in it.
C13_Witness ==
    /\ Done({"Sftp.download_dir"})
    /\ transfer.again
    /\ result = "returned"
    /\ transfer.remote = RemoteRoot
    /\ <<"src", "a", "b">> \in remote.tree.files
    /\ <<"dst", "a">> \in transfer.before.dirs
    /\ <<"dst", "a", "b">> \in local.files
    /\ Count(trace, "makedirs: dst/a") = 2

DeleteOps == {"Ssh.close"} \cup SshExits

ConnectAttempted == Len(trace') > Len(trace) /\ pc = "create"

\* C14: in every step, the connected flag changes only from unset to set in an
\* iteration of create() whose attempt succeeded, and every such iteration sets
\* it, or from set to unset in delete(); connection_check() changes nothing of
\* the Connection and answers the flag; delete() on a live Connection closes the
\* session once and clears the flag, on any other it calls nothing and leaves
\* the flag unset; create() on a live Connection makes no attempt.
C14_ConnectionLifecycle ==
    [][/\ connected' /= connected
            => \/ /\ ~connected /\ connected'
                  /\ ConnectAttempted
                  /\ Last(trace') = "client.connect: ok"
               \/ /\ connected /\ ~connected'
                  /\ pc = "idle"
                  /\ call'.op \in DeleteOps
       /\ (ConnectAttempted /\ Last(trace') = "client.connect: ok") => connected'
       /\ (pc = "idle" /\ call'.op = "Connection.connection_check")
            => /\ UNCHANGED <<connected, ssh_channel, client, lifecycle>>
               /\ result' = (IF connected THEN "True" ELSE "False")
       /\ (pc = "idle" /\ call'.op \in DeleteOps)
            => /\ ~connected'
               /\ trace' = (IF connected THEN <<"client.close">> ELSE <<>>)
               /\ result' = "returned"
       /\ (pc = "create" /\ connected)
            => /\ ~ConnectAttempted
               /\ connected'
               /\ pc' = "idle"
      ]_vars

\* close() on a live Connection, done; and the three other cases of the claim.
C14_Witness ==
    /\ Done({"Ssh.close"})
    /\ call.wasConnected
    /\ ~connected
    /\ trace = <<"client.close">>

C14_WitnessNotLive == Done(DeleteOps) /\ ~call.wasConnected /\ trace = <<>>

C14_WitnessCreateOnLive == Done(CreateOps) /\ call.wasConnected /\ trace = <<>>

C14_WitnessCheck == Done({"Connection.connection_check"}) /\ result = "True"

ChannelCloses == {"Channel.close", "Channel.__exit__"}

\* C15: Channel.close(), called by hand or by the exit of the scope, calls
\* close on whatever handle the Channel holds, open or closed already, and
\* returns; on a Channel that holds none it raises AttributeError, having called
\* nothing.
C15_ChannelCloseUnguarded ==
    Done(ChannelCloses)
        => IF call.wasChannel = "None"
           THEN /\ result = AttributeErr
                /\ trace = <<>>
                /\ ssh_channel = "None"
           ELSE /\ result = "returned"
                /\ trace = <<"channel.close">>
                /\ ssh_channel = "closed"

\* Leaving the scope of a Channel whose open() timed out: the exit raises.
C15_Witness ==
    /\ Done({"Channel.__exit__"})
    /\ opening = "timed out"
    /\ call.wasChannel = "None"
    /\ result = AttributeErr

LogLines == {"log_out: " \o HandledMessage(a) : a \in ConnectAnswers \ {"ok"}}

ConnectCalls == {"client.connect: ok", "client.connect: failed"}

\* C16: while and after create() runs, every failed attempt it has made is
\* followed by one line of log and one sleep of a second, then by the next
\* attempt if there is one; create() has not raised; and a successful attempt is
\* the last call it made.
C16_RetryProtocol ==
    call.op \in CreateOps
        => /\ \A i \in 1..Len(trace) :
                trace[i] = "client.connect: failed"
                    => /\ i + 2 <= Len(trace)
                       /\ trace[i + 1] \in LogLines
                       /\ trace[i + 2] = "sleep"
                       /\ i + 3 <= Len(trace) => trace[i + 3] \in ConnectCalls
           /\ result \in {"running", "returned"}
           /\ \A i \in 1..Len(trace) :
                trace[i] = "client.connect: ok" => i = Len(trace) /\ connected

\* The same where OSError carries winerror.
C16_OnWindows == hasWinerror => C16_RetryProtocol

\* The loop of the wait going on after a check of the time: the service was
\* reported active, the sleep is over, and elapsed is the time read at the check.
WaitGoesOn == call.op \in WaitOp /\ pc = "wait" /\ wait.polls >= 1

\* C17: the wait never goes on after a check at which the time elapsed has
\* reached a timeout that was passed, whole or fractional; it can go on without
\* end only when none was passed.
C17_AnyTimeoutExpires ==
    (WaitGoesOn /\ wait.timeout.kind /= "None") => elapsed < wait.timeout.ticks

\* The same for the timeouts that are whole numbers of seconds.
C17_IntTimeoutExpires ==
    (WaitGoesOn /\ wait.timeout.kind = "int") => elapsed < wait.timeout.ticks

Index(s, e) == CHOOSE i \in 1..Len(s) : s[i] = e

LogTail == "client.exec_command: journalctl -n 1000"

IndicatorCalls == {"status.start", "status.update", "status.stop"}

\* C18: in wait_execute_service the progress indicator is started once when
\* the option is on and not touched when it is off; it is not stopped while the
\* loop runs; when the call has returned or raised, from whichever exit, an
\* indicator that was started has been stopped once, after its last update; the
\* log tail of 1000 lines is asked for only when echo is on, only at the end,
\* after the indicator was stopped, and always when echo is on and the
\* connection is live.
C18_WaitCleansUp ==
    call.op \in WaitOp
        => /\ Count(trace, "status.start") = (IF wait.status_bar THEN 1 ELSE 0)
           /\ ~wait.status_bar => \A i \in 1..Len(trace) : trace[i] \notin IndicatorCalls
           /\ pc = "wait" => ~Has(trace, "status.stop") /\ ~Has(trace, LogTail)
           /\ (pc = "idle" /\ wait.status_bar)
                => /\ Count(trace, "status.stop") = 1
                   /\ \A i \in 1..Len(trace) :
                        trace[i] \in {"status.start", "status.update"}
                            => i < Index(trace, "status.stop")
           /\ Has(trace, LogTail)
                => /\ wait.stdout
                   /\ Count(trace, LogTail) = 1
                   /\ wait.status_bar => Index(trace, "status.stop") < Index(trace, LogTail)
           /\ (pc = "idle" /\ wait.stdout /\ connected) => Has(trace, LogTail)

\* The wait timing out with the indicator and the echo on.
C18_Witness ==
    /\ Done(WaitOp)
    /\ wait.status_bar
    /\ wait.stdout
    /\ result = WaitExpired
    /\ Has(trace, "status.update")
    /\ Index(trace, "status.stop") + 1 = Index(trace, LogTail)

\* The wait on a connection that is not live, the indicator on.
C18_WitnessNotLive ==
    /\ Done(WaitOp)
    /\ wait.status_bar
    /\ result = NotConnected
    /\ trace = <<"status.start", "status.stop">>

SftpCloses == {"Sftp.close"} \cup SftpExits

\* C19: after close() the Sftp is as it was before the first connect(): its
\* guard rejects, so that upload_file called next raises the not-open error and
\* calls nothing; and upload_file on an Sftp that is not open never reaches the
\* handle.
C19_SftpClosedAfterClose ==
    /\ Done(SftpCloses) => ~connected_sftp_only
    /\ (Done({"Sftp.upload_file"}) /\ call.wasClient /= "open")
         => /\ result = SftpNotCreated
            /\ trace = <<>>

\* The same of the Channel: after close() its guard rejects, and exec_command on
\* a Channel that is not open sends nothing.
C19_ChannelClosedAfterClose ==
    /\ (Done(ChannelCloses) /\ result = "returned") => ~connected_channel_only
    /\ (Done({"Channel.exec_command"}) /\ call.wasChannel /= "open")
         => /\ result = ChannelNotOpened
            /\ trace = <<>>

\* Before the first connect() the guard does reject.
C19_BeforeFirstConnect ==
    (Done({"Sftp.upload_file"}) /\ call.wasClient = "None")
        => /\ result = SftpNotCreated
           /\ trace = <<>>

GotOnce ==
    /\ result = "returned"
    /\ Visits("makedirs") /= {}
    /\ Visits("get") = {Len(transfer.visits)}
    /\ Last(transfer.visits).r = transfer.remote
    /\ Last(transfer.visits).l = transfer.local
    /\ Prefixes(dirname(transfer.local)) \subseteq local.dirs
    /\ transfer.local \in local.files

\* C20: download_file of a remote file with an open sub-session, whatever the
\* local target is, returns, having made the directories the target needs and
\* then called get once, for the remote file and the target.
C20_DownloadFileAnyTarget ==
    (Done({"Sftp.download_file"}) /\ call.wasClient = "open") => GotOnce

\* The same for the targets that have a directory component, whether the
\* directories are there or not.
C20_TargetInDirectory ==
    (Done({"Sftp.download_file"}) /\ call.wasClient = "open"
        /\ dirname(transfer.local) /= <<>>) => GotOnce

====
